---- MODULE Spec2Model ----
(***************************************************************************)
(* n8n MCP server: the tool registry and dispatcher (config/server.ts),    *)
(* the n8n API client (api/n8n-client.ts) and the update_workflow tool     *)
(* handler, run by concurrent callers against one upstream n8n instance.   *)
(*                                                                         *)
(* JSON objects are functions from the keys they carry to values; a key    *)
(* the object lacks reads as undefined.  Array, object and string values   *)
(* are opaque tokens, classed by IsArray / IsObject / Truthy.  A rendered  *)
(* text (a template literal) is the sequence of its pieces.                *)
(***************************************************************************)
EXTENDS Naturals, Sequences, FiniteSets

VARIABLES
  server,        \* configureServer: "init", "probing", "up" or "failed"
  toolHandlers,  \* the registry: tool name -> handler class
  upstream,      \* the n8n instance: workflow id -> workflow object or Absent
  pc,            \* per caller: where its call_tool request is suspended
  call,          \* per caller: the request, [name, args]
  local,         \* per caller: the handler's local variables
  settled,       \* per caller: how handler.execute settled, or NoReturn
  returned,      \* per caller: what the call returned to its caller, or NoReturn
  requests,      \* per caller: HTTP requests issued by the current call
  executed,      \* per caller: the execute invocations of the current call,
                 \* each [handler, args]
  frames,        \* per caller: API client methods in progress, innermost last
  clientCalls,   \* per caller and for the server: the API client invocations the
                 \* current call finished, each <<method, requests sent, how it ended>>
  overlapped,    \* per caller: another caller wrote upstream during its call
  remaining      \* calls the run may still start

vars == <<server, toolHandlers, upstream, pc, call, local, settled, returned, requests,
          executed, frames, clientCalls, overlapped, remaining>>

----------------------------------------------------------------------------
(* Bounds *)

\* calls started in one run of the server
MaxCalls == 2
\* workflows the upstream instance holds at most
MaxWorkflows == 2

Callers == {"a", "b"}

----------------------------------------------------------------------------
(* JSON values *)

Absent == [absent |-> TRUE]
NoReturn == [none |-> TRUE]
Empty == [k \in {} |-> TRUE]

Has(o, k) == k \in DOMAIN o

\* {...o, k: v}
With(o, k, v) == [j \in DOMAIN o \cup {k} |-> IF j = k THEN v ELSE o[j]]

\* {...a, ...b}
Spread(a, b) == [j \in DOMAIN a \cup DOMAIN b |-> IF j \in DOMAIN b THEN b[j] ELSE a[j]]

ArrayValues == {"[]", "[n1]", "[n2]", "[t1]", "[t2]"}
ObjectValues == {"{}", "{c1}", "{c2}"}
FalsyValues == {"", "0"}

IsArray(v) == v \in ArrayValues
IsObject(v) == v \in ArrayValues \cup ObjectValues
Truthy(v) == v \notin FalsyValues

\* the arrow of the change summary (U+2192 in the source)
Arrow == " → "

BoolText(b) == IF b THEN "true" ELSE "false"

\* text contains piece as a run of consecutive pieces
Includes(text, piece) ==
  \E i \in 1..Len(text) :
    /\ i + Len(piece) - 1 <= Len(text)
    /\ SubSeq(text, i, i + Len(piece) - 1) = piece

RECURSIVE Join(_)
\* changesArray.join(', ')
Join(parts) ==
  IF Len(parts) = 0 THEN <<>>
  ELSE IF Len(parts) = 1 THEN parts[1]
  ELSE parts[1] \o <<", ">> \o Join(Tail(parts))

----------------------------------------------------------------------------
(* Errors and result envelopes *)

\* new Error(message) and its subclasses
Error(message) == [instanceofError |-> TRUE, message |-> message]

\* a thrown value that is no Error instance
NonError(message) == [instanceofError |-> FALSE, message |-> message]

N8nApiError(message) == Error(message)

\* handleAxiosError(error, message): the normalised upstream or transport error
handleAxiosError(message) == N8nApiError(message)

\* BaseWorkflowToolHandler.formatSuccess(data, message)
formatSuccess(data, message) ==
  [content |-> <<[type |-> "text", text |-> message, data |-> data]>>,
   isError |-> FALSE]

\* BaseWorkflowToolHandler.formatError(error)
formatError(error) ==
  [content |-> <<[type |-> "text", text |-> error.message]>>, isError |-> TRUE]

\* handler.execute settled: it resolved with a result or rejected with a value
Resolved(result) == [threw |-> FALSE, result |-> result]
Rejected(error) == [threw |-> TRUE, error |-> error]

----------------------------------------------------------------------------
(* Tool registry and dispatcher: config/server.ts *)

RegisteredHandlers ==
  [list_workflows |-> "ListWorkflowsHandler",
   get_workflow |-> "GetWorkflowHandler",
   create_workflow |-> "CreateWorkflowHandler",
   update_workflow |-> "UpdateWorkflowHandler",
   delete_workflow |-> "DeleteWorkflowHandler",
   activate_workflow |-> "ActivateWorkflowHandler",
   deactivate_workflow |-> "DeactivateWorkflowHandler",
   list_executions |-> "ListExecutionsHandler",
   get_execution |-> "GetExecutionHandler",
   delete_execution |-> "DeleteExecutionHandler",
   run_webhook |-> "RunWebhookHandler"]

\* toolHandlers.get(toolName) found a handler
HandlerFound(handlers, toolName) == toolName \in DOMAIN handlers

\* a variant whose message leaves the tool name out
UnknownToolError_Unnamed(toolName) == Error(<<"Unknown tool">>)

\* throw new Error(`Unknown tool: ${toolName}`)
UnknownToolError(toolName) == Error(<<"Unknown tool: ", toolName>>)

\* a variant that reads the message of whatever was thrown
CatchEnvelope_AnyMessage(error) ==
  [content |-> <<[type |-> "text", text |-> <<"Error: ">> \o error.message]>>,
   isError |-> TRUE]

\* the catch block: `Error: ${error instanceof Error ? error.message : 'Unknown error'}`
CatchEnvelope(error) ==
  [content |->
     <<[type |-> "text",
        text |-> <<"Error: ">> \o
                 (IF error.instanceofError THEN error.message ELSE <<"Unknown error">>)]>>,
   isError |-> TRUE]

\* what the request handler returns once handler.execute settled
ToolCallResult(outcome) ==
  IF outcome.threw
  THEN CatchEnvelope(outcome.error)
  ELSE [content |-> outcome.result.content, isError |-> outcome.result.isError]

\* a variant that caches a placeholder handler under every name it was asked for
HandlersAfterCall_Caching(handlers, toolName) ==
  IF toolName \in DOMAIN handlers THEN handlers ELSE With(handlers, toolName, "UnknownHandler")

\* the registry after a call_tool request was handled
HandlersAfterCall(handlers, toolName) == handlers

----------------------------------------------------------------------------
(* n8n API client: api/n8n-client.ts *)

\* the request each one-request method sends: <<verb, path>>
ClientRequest(method, id) ==
  CASE method = "checkConnectivity" -> <<"GET", <<"/workflows">>>>
    [] method = "getWorkflows" -> <<"GET", <<"/workflows">>>>
    [] method = "getWorkflow" -> <<"GET", <<"/workflows/", id>>>>
    [] method = "getExecutions" -> <<"GET", <<"/executions">>>>
    [] method = "getExecution" -> <<"GET", <<"/executions/", id>>>>
    [] method = "executeWorkflow" -> <<"POST", <<"/workflows/", id, "/execute">>>>
    [] method = "createWorkflow" -> <<"POST", <<"/workflows">>>>
    [] method = "deleteWorkflow" -> <<"DELETE", <<"/workflows/", id>>>>
    [] method = "activateWorkflow" -> <<"POST", <<"/workflows/", id, "/activate">>>>
    [] method = "deactivateWorkflow" -> <<"POST", <<"/workflows/", id, "/deactivate">>>>
    [] method = "deleteExecution" -> <<"DELETE", <<"/executions/", id>>>>

\* the message each method hands to handleAxiosError
ClientFailure(method, id) ==
  CASE method = "checkConnectivity" -> <<"Failed to connect to n8n API">>
    [] method = "getWorkflows" -> <<"Failed to fetch workflows">>
    [] method = "getWorkflow" -> <<"Failed to fetch workflow ", id>>
    [] method = "getExecutions" -> <<"Failed to fetch executions">>
    [] method = "getExecution" -> <<"Failed to fetch execution ", id>>
    [] method = "executeWorkflow" -> <<"Failed to execute workflow ", id>>
    [] method = "createWorkflow" -> <<"Failed to create workflow">>
    [] method = "updateWorkflow" -> <<"Failed to update workflow ", id>>
    [] method = "deleteWorkflow" -> <<"Failed to delete workflow ", id>>
    [] method = "activateWorkflow" -> <<"Failed to activate workflow ", id>>
    [] method = "deactivateWorkflow" -> <<"Failed to deactivate workflow ", id>>
    [] method = "deleteExecution" -> <<"Failed to delete execution ", id>>

Request(verb, path, body) == [verb |-> verb, path |-> path, body |-> body]

\* the settings baseline of createWorkflow
DefaultSettings ==
  [saveExecutionProgress |-> TRUE,
   saveManualExecutions |-> TRUE,
   saveDataErrorExecution |-> "all",
   saveDataSuccessExecution |-> "all",
   executionTimeout |-> 3600,
   timezone |-> "UTC"]

\* o.settings as spread into an object literal: undefined spreads nothing
SettingsOf(o) == IF Has(o, "settings") THEN o.settings ELSE Empty

\* x || d for a token-valued key
OrElse(o, k, d) == IF Has(o, k) /\ Truthy(o[k]) THEN o[k] ELSE d

\* a variant that spreads the caller's settings before the baseline
WorkflowToCreate_BaselineWins(workflow) ==
  LET named == IF Has(workflow, "name") THEN [name |-> workflow.name] ELSE Empty
  IN  Spread(named,
        [nodes |-> OrElse(workflow, "nodes", "[]"),
         connections |-> OrElse(workflow, "connections", "{}"),
         settings |-> Spread(SettingsOf(workflow), DefaultSettings),
         active |-> IF Has(workflow, "active") /\ workflow.active THEN workflow.active ELSE FALSE,
         tags |-> OrElse(workflow, "tags", "[]")])

\* createWorkflow: workflowToCreate
WorkflowToCreate(workflow) ==
  LET named == IF Has(workflow, "name") THEN [name |-> workflow.name] ELSE Empty
  IN  Spread(named,
        [nodes |-> OrElse(workflow, "nodes", "[]"),
         connections |-> OrElse(workflow, "connections", "{}"),
         settings |-> Spread(DefaultSettings, SettingsOf(workflow)),
         active |-> IF Has(workflow, "active") /\ workflow.active THEN workflow.active ELSE FALSE,
         tags |-> OrElse(workflow, "tags", "[]")])

MergedFields == {"name", "nodes", "connections", "active", "tags"}

\* a variant that takes a caller's field only when it is truthy (`||`)
UpdatedWorkflow_Truthy(currentWorkflow, workflow) ==
  [k \in DOMAIN currentWorkflow \cup {"settings"} \cup (MergedFields \cap DOMAIN workflow) |->
     IF k = "settings"
     THEN Spread(SettingsOf(currentWorkflow), SettingsOf(workflow))
     ELSE IF k = "active" /\ Has(workflow, k)
     THEN (IF workflow[k] THEN workflow[k] ELSE currentWorkflow[k])
     ELSE IF k \in MergedFields /\ Has(workflow, k)
     THEN workflow[k]
     ELSE currentWorkflow[k]]

\* a variant that resets the tags instead of keeping the caller's or the fetched ones
UpdatedWorkflow_TagsReset(currentWorkflow, workflow) ==
  [k \in DOMAIN currentWorkflow \cup {"settings"} \cup (MergedFields \cap DOMAIN workflow) |->
     IF k = "settings"
     THEN Spread(SettingsOf(currentWorkflow), SettingsOf(workflow))
     ELSE IF k = "tags"
     THEN "[]"
     ELSE IF k \in MergedFields /\ Has(workflow, k)
     THEN workflow[k]
     ELSE currentWorkflow[k]]

\* updateWorkflow: updatedWorkflow, from the fetched copy and the caller's object
UpdatedWorkflow(currentWorkflow, workflow) ==
  [k \in DOMAIN currentWorkflow \cup {"settings"} \cup (MergedFields \cap DOMAIN workflow) |->
     IF k = "settings"
     THEN Spread(SettingsOf(currentWorkflow), SettingsOf(workflow))
     ELSE IF k \in MergedFields /\ Has(workflow, k)
     THEN workflow[k]
     ELSE currentWorkflow[k]]

----------------------------------------------------------------------------
(* update_workflow handler: tools/workflow/update.ts *)

\* a variant whose first message does not say which parameter is missing
ValidationError_Unnamed(args) ==
  IF ~(Has(args, "name") /\ Truthy(args.name))
  THEN <<"Missing required parameter">>
  ELSE <<>>

\* the checks before the first request: the message of the error thrown, or <<>>
ValidationError(args) ==
  IF ~(Has(args, "name") /\ Truthy(args.name))
  THEN <<"Missing required parameter: ", "name">>
  ELSE IF Has(args, "nodes") /\ Truthy(args.nodes) /\ ~IsArray(args.nodes)
  THEN <<"Parameter \"", "nodes", "\" must be an array">>
  ELSE IF Has(args, "connections") /\ Truthy(args.connections) /\ ~IsObject(args.connections)
  THEN <<"Parameter \"", "connections", "\" must be an object">>
  ELSE <<>>

\* a variant that takes the last workflow of that name
FindByName_Last(workflows, name) ==
  LET hits == {i \in 1..Len(workflows) : workflows[i].name = name}
  IN  IF hits = {} THEN 0 ELSE CHOOSE i \in hits : \A j \in hits : i >= j

\* workflows.find(w => w.name === name): the index of the first match, or 0
FindByName(workflows, name) ==
  LET hits == {i \in 1..Len(workflows) : workflows[i].name = name}
  IN  IF hits = {} THEN 0 ELSE CHOOSE i \in hits : \A j \in hits : i <= j

NotFoundError(name) == N8nApiError(<<"Workflow with name \"", name, "\" not found">>)

\* workflowData: the found workflow with the supplied fields written over it
WorkflowData(workflow, args) ==
  LET d1 == IF Has(args, "newName") THEN With(workflow, "name", args.newName) ELSE workflow
      d2 == IF Has(args, "nodes") THEN With(d1, "nodes", args.nodes) ELSE d1
      d3 == IF Has(args, "connections") THEN With(d2, "connections", args.connections) ELSE d2
      d4 == IF Has(args, "active") THEN With(d3, "active", args.active) ELSE d3
  IN  IF Has(args, "tags") THEN With(d4, "tags", args.tags) ELSE d4

\* a variant that reports the active change with old and new swapped
ChangesArray_Swapped(args, workflow) ==
  (IF Has(args, "newName") /\ args.newName # workflow.name
   THEN <<(<<"name: \"", workflow.name, "\"", Arrow, "\"", args.newName, "\"">>)>> ELSE <<>>)
  \o (IF Has(args, "active") /\ args.active # workflow.active
      THEN <<(<<"active: ", BoolText(args.active), Arrow, BoolText(workflow.active)>>)>>
      ELSE <<>>)
  \o (IF Has(args, "nodes") THEN <<(<<"nodes updated">>)>> ELSE <<>>)
  \o (IF Has(args, "connections") THEN <<(<<"connections updated">>)>> ELSE <<>>)
  \o (IF Has(args, "tags") THEN <<(<<"tags updated">>)>> ELSE <<>>)

\* changesArray
ChangesArray(args, workflow) ==
  (IF Has(args, "newName") /\ args.newName # workflow.name
   THEN <<(<<"name: \"", workflow.name, "\"", Arrow, "\"", args.newName, "\"">>)>> ELSE <<>>)
  \o (IF Has(args, "active") /\ args.active # workflow.active
      THEN <<(<<"active: ", BoolText(workflow.active), Arrow, BoolText(args.active)>>)>>
      ELSE <<>>)
  \o (IF Has(args, "nodes") THEN <<(<<"nodes updated">>)>> ELSE <<>>)
  \o (IF Has(args, "connections") THEN <<(<<"connections updated">>)>> ELSE <<>>)
  \o (IF Has(args, "tags") THEN <<(<<"tags updated">>)>> ELSE <<>>)

\* a variant that reports an empty change list as an empty "Changes: "
ChangesSummary_NoFallback(changesArray) == <<"Changes: ">> \o Join(changesArray)

\* changesSummary
ChangesSummary(changesArray) ==
  IF Len(changesArray) > 0
  THEN <<"Changes: ">> \o Join(changesArray)
  ELSE <<"No changes were made">>

\* the message handed to formatSuccess
UpdateMessage(args, workflow) ==
  <<"Workflow updated successfully. ">> \o ChangesSummary(ChangesArray(args, workflow))

\* the result of a successful update
UpdateSuccess(args, workflow, updatedWorkflow) ==
  formatSuccess(
    [id |-> updatedWorkflow.id, name |-> updatedWorkflow.name, active |-> updatedWorkflow.active],
    UpdateMessage(args, workflow))

----------------------------------------------------------------------------
(* The other tool handlers *)

\* the API client method each handler calls
ToolMethod(tool) ==
  CASE tool = "list_workflows" -> "getWorkflows"
    [] tool = "get_workflow" -> "getWorkflow"
    [] tool = "create_workflow" -> "createWorkflow"
    [] tool = "delete_workflow" -> "deleteWorkflow"
    [] tool = "activate_workflow" -> "activateWorkflow"
    [] tool = "deactivate_workflow" -> "deactivateWorkflow"
    [] tool = "list_executions" -> "getExecutions"
    [] tool = "get_execution" -> "getExecution"
    [] tool = "delete_execution" -> "deleteExecution"
    [] tool = "run_webhook" -> "executeWorkflow"

\* the documented required argument of each handler, "" when it has none
RequiredParam(tool) ==
  CASE tool \in {"get_workflow", "delete_workflow", "activate_workflow",
                 "deactivate_workflow", "run_webhook"} -> "workflowId"
    [] tool \in {"get_execution", "delete_execution"} -> "executionId"
    [] tool = "create_workflow" -> "name"
    [] tool = "update_workflow" -> "name"
    [] OTHER -> ""

\* the message of the error a handler throws for a missing required argument, or <<>>
MissingParam(tool, args) ==
  IF RequiredParam(tool) # "" /\ ~Has(args, RequiredParam(tool))
  THEN <<"Missing required parameter: ", RequiredParam(tool)>>
  ELSE <<>>

\* the resource id a handler passes to its API client method
TargetId(tool, args) ==
  IF RequiredParam(tool) \in {"workflowId", "executionId"} THEN args[RequiredParam(tool)] ELSE ""

\* the result of a handler whose one API client call returned data
OtherSuccess(tool, data) == formatSuccess(data, <<tool, " succeeded">>)

----------------------------------------------------------------------------
(* The upstream n8n instance *)

IdNames == <<"1", "2", "3", "4">>
Slots == 1..MaxWorkflows
WorkflowIds == {IdNames[i] : i \in Slots}
SlotOf(id) == CHOOSE i \in Slots : IdNames[i] = id

Present(up, id) == id \in WorkflowIds /\ up[SlotOf(id)] # Absent

RECURSIVE ListFrom(_, _)
ListFrom(up, i) ==
  IF i > MaxWorkflows THEN <<>>
  ELSE (IF up[i] = Absent THEN <<>> ELSE <<up[i]>>) \o ListFrom(up, i + 1)

\* GET /workflows: the stored workflows in id order
UpstreamList(up) == ListFrom(up, 1)

FreeSlots(up) == {i \in Slots : up[i] = Absent}

\* whether the upstream can answer the request with a 2xx
CanServe(up, method, id) ==
  CASE method \in {"getWorkflow", "updateWorkflow", "deleteWorkflow", "activateWorkflow",
                   "deactivateWorkflow", "executeWorkflow"} -> Present(up, id)
    [] method = "createWorkflow" -> FreeSlots(up) # {}
    [] OTHER -> TRUE

\* the stored workflows after the upstream served the request
UpstreamAfter(up, method, id, body) ==
  CASE method = "updateWorkflow" -> [up EXCEPT ![SlotOf(id)] = body]
    [] method = "deleteWorkflow" -> [up EXCEPT ![SlotOf(id)] = Absent]
    [] method = "activateWorkflow" -> [up EXCEPT ![SlotOf(id)] = With(@, "active", TRUE)]
    [] method = "deactivateWorkflow" -> [up EXCEPT ![SlotOf(id)] = With(@, "active", FALSE)]
    [] method = "createWorkflow" ->
         LET i == CHOOSE j \in FreeSlots(up) : \A k \in FreeSlots(up) : j <= k
         IN  [up EXCEPT ![i] = Spread(body, [id |-> IdNames[i], createdAt |-> "t1"])]
    [] OTHER -> up

\* the decoded body of the upstream's 2xx response
ResponseData(up, after, method, id) ==
  CASE method \in {"getWorkflow", "deleteWorkflow", "executeWorkflow"} -> up[SlotOf(id)]
    [] method \in {"updateWorkflow", "activateWorkflow", "deactivateWorkflow"} -> after[SlotOf(id)]
    [] method = "createWorkflow" ->
         after[CHOOSE j \in FreeSlots(up) : \A k \in FreeSlots(up) : j <= k]
    [] method = "getWorkflows" -> [data |-> UpstreamList(up)]
    [] OTHER -> Empty

Writes == {"updateWorkflow", "deleteWorkflow", "activateWorkflow", "deactivateWorkflow",
           "createWorkflow"}

----------------------------------------------------------------------------
(* Inputs *)

\* request.params.arguments left out by the caller
Omitted == [omitted |-> TRUE]

UnknownTools == {"bogus_tool"}
ToolNames == DOMAIN RegisteredHandlers \cup UnknownTools

\* the optional fields of an update_workflow request
OptionalFields ==
  { Spread(nn, Spread(a, Spread(no, Spread(co, t)))) :
      nn \in {Empty, [newName |-> "New"]},
      a \in {Empty, [active |-> TRUE], [active |-> FALSE]},
      no \in {Empty, [nodes |-> "[n2]"]},
      co \in {Empty, [connections |-> "{c2}"]},
      t \in {Empty, [tags |-> "[t2]"]} }

\* update_workflow requests whose nodes or connections are of another type than
\* the tool definition declares, or equal to the stored ones
StructuralArguments ==
  { Spread([name |-> "Test"], Spread(no, co)) :
      no \in {Empty} \cup {[nodes |-> v] : v \in {"[n1]", "{c2}", "text", "0", ""}},
      co \in {Empty} \cup {[connections |-> v] : v \in {"{c1}", "[n2]", "text", "0", ""}} }
  \cup {[name |-> "Test", tags |-> "[t1]"], [name |-> "Test", newName |-> "Test"]}

\* the argument mappings one caller alone sends with a tool name
AllArguments(tool) ==
  CASE tool = "update_workflow" ->
         { Spread(n, o) :
             n \in {Empty, [name |-> ""], [name |-> "Test"], [name |-> "Ghost"]},
             o \in OptionalFields } \cup StructuralArguments \cup {Omitted}
    [] tool = "create_workflow" ->
         {Empty, [name |-> "Test"], [name |-> "Test", settings |-> [timezone |-> "CET"]]}
    [] RequiredParam(tool) = "workflowId" ->
         {Omitted, Empty} \cup {[workflowId |-> id] : id \in WorkflowIds}
    [] RequiredParam(tool) = "executionId" -> {Omitted, Empty, [executionId |-> "7"]}
    [] OTHER -> {Omitted, Empty}

\* the argument mappings concurrent callers send with a tool name
Arguments(tool) ==
  CASE tool = "update_workflow" ->
         {Omitted, [name |-> "Ghost"], [name |-> "Test"],
          [name |-> "Test", active |-> TRUE],
          [name |-> "Test", active |-> FALSE],
          [name |-> "Test", newName |-> "New"],
          [name |-> "Test", tags |-> "[t2]"],
          [name |-> "Test", nodes |-> "[n2]", connections |-> "{c2}"]}
    [] tool = "create_workflow" -> {[name |-> "Test"]}
    [] tool = "get_workflow" -> {Empty, [workflowId |-> "1"]}
    [] RequiredParam(tool) = "workflowId" -> {[workflowId |-> "1"]}
    [] RequiredParam(tool) = "executionId" -> {[executionId |-> "7"]}
    [] tool = "list_workflows" -> {Omitted}
    [] tool = "list_executions" -> {Empty}
    [] OTHER -> {Omitted, Empty}

\* the API client methods that send one request
ClientMethods ==
  {"getWorkflows", "getWorkflow", "getExecutions", "getExecution", "executeWorkflow",
   "createWorkflow", "deleteWorkflow", "activateWorkflow", "deactivateWorkflow",
   "deleteExecution"}

\* the ids a direct user of the API client passes to a method
ClientIds(method) ==
  IF method \in {"getWorkflows", "getExecutions", "createWorkflow"} THEN {""}
  ELSE IF method \in {"getExecution", "deleteExecution"} THEN {"7"}
  ELSE WorkflowIds

\* the workflow objects a direct user passes to updateWorkflow
UpdateObjects ==
  { Spread(n, Spread(no, Spread(co, Spread(a, Spread(t, Spread(st, x)))))) :
      n \in {Empty, [name |-> "New"]},
      no \in {Empty, [nodes |-> "[n2]"]},
      co \in {Empty, [connections |-> "{c2}"]},
      a \in {Empty, [active |-> TRUE], [active |-> FALSE]},
      t \in {Empty, [tags |-> "[t2]"]},
      st \in {Empty, [settings |-> [timezone |-> "CET"]],
              [settings |-> [errorWorkflow |-> "9"]]},
      x \in {Empty, [createdAt |-> "t9"]} }

\* the workflow objects a direct user passes to createWorkflow
CreateObjects ==
  { Spread(n, Spread(no, Spread(co, Spread(a, Spread(t, st))))) :
      n \in {[name |-> "Made"]},
      no \in {Empty, [nodes |-> "[n2]"], [nodes |-> ""]},
      co \in {Empty, [connections |-> "{c2}"]},
      a \in {Empty, [active |-> TRUE], [active |-> FALSE]},
      t \in {Empty, [tags |-> "[t2]"]},
      st \in {Empty, [settings |-> [timezone |-> "CET"]],
              [settings |-> [errorWorkflow |-> "9"]],
              [settings |-> [timezone |-> "CET", saveExecutionProgress |-> FALSE]]} }

ClientObjects(method) ==
  CASE method = "updateWorkflow" -> UpdateObjects
    [] method = "createWorkflow" -> CreateObjects
    [] OTHER -> {Empty}

\* request.params.arguments || {}
ArgsOf(arguments) == IF arguments = Omitted THEN Empty ELSE arguments

\* values a handler's execute may reject with although handlers are written not to
Escapes == {Error(<<"boom">>), NonError(<<"boom">>)}

----------------------------------------------------------------------------
(* State *)

Workflow1 ==
  [id |-> "1", name |-> "Test", nodes |-> "[n1]", connections |-> "{c1}",
   settings |-> [timezone |-> "UTC"], active |-> FALSE, tags |-> "[t1]",
   createdAt |-> "t0"]

NoLocal == Empty

Init ==
  /\ server = "init"
  /\ toolHandlers = Empty
  /\ upstream = [i \in Slots |-> IF i = 1 THEN Workflow1 ELSE Absent]
  /\ pc = [c \in Callers |-> "idle"]
  /\ call = [c \in Callers |-> NoReturn]
  /\ local = [c \in Callers |-> NoLocal]
  /\ settled = [c \in Callers |-> NoReturn]
  /\ returned = [c \in Callers |-> NoReturn]
  /\ requests = [c \in Callers |-> <<>>]
  /\ executed = [c \in Callers |-> <<>>]
  /\ frames = [c \in Callers |-> <<>>]
  /\ clientCalls = [c \in Callers \cup {"server"} |-> {}]
  /\ overlapped = [c \in Callers |-> FALSE]
  /\ remaining = MaxCalls

\* an API client method was entered
Enter(fs, method) == Append(fs, [method |-> method, n |-> 0])

\* a variant that sends every request twice
Sent_Twice(fs) == [i \in DOMAIN fs |-> [fs[i] EXCEPT !.n = @ + 2]]

\* axiosInstance sent one request: every method in progress has issued it
Sent(fs) == [i \in DOMAIN fs |-> [fs[i] EXCEPT !.n = @ + 1]]

\* the innermost method finished
Leave(fs) == SubSeq(fs, 1, Len(fs) - 1)
Finished(fs, how) == <<fs[Len(fs)].method, fs[Len(fs)].n, how>>

\* callers whose update_workflow call holds a copy of upstream state
InWindow(c) == pc[c] \in {"get", "put"}

Overlap(c, wrote) ==
  [d \in Callers |-> IF wrote /\ d # c /\ InWindow(d) THEN TRUE ELSE overlapped[d]]

\* BaseWorkflowToolHandler.handleExecution caught an error: execute resolves
\* with the error envelope
Caught(error) == Resolved(formatError(error))

\* the request handler returns: the try block produced outcome
Return(c, toolName, outcome) ==
  /\ pc' = [pc EXCEPT ![c] = "done"]
  /\ returned' = [returned EXCEPT ![c] = ToolCallResult(outcome)]
  /\ toolHandlers' = HandlersAfterCall(toolHandlers, toolName)

----------------------------------------------------------------------------
(* configureServer *)

StartServer ==
  /\ server = "init"
  /\ server' = "probing"
  /\ UNCHANGED <<toolHandlers, upstream, pc, call, local, settled, returned, requests,
                 executed, frames, clientCalls, overlapped, remaining>>

\* checkConnectivity settled: on success the handlers are registered
ConnectivityResponse ==
  /\ server = "probing"
  /\ \E ok \in BOOLEAN :
       /\ server' = IF ok THEN "up" ELSE "failed"
       /\ toolHandlers' = IF ok THEN Spread(toolHandlers, RegisteredHandlers) ELSE toolHandlers
       /\ clientCalls' = [clientCalls EXCEPT !["server"] =
                           {<<"checkConnectivity", 1, IF ok THEN "returned" ELSE "threw">>}]
  /\ UNCHANGED <<upstream, pc, call, local, settled, returned, requests, executed, frames,
                 overlapped, remaining>>

----------------------------------------------------------------------------
(* call_tool: the request handler up to its first suspension *)

CallTool(c, toolName, arguments) ==
  /\ server = "up"
  /\ pc[c] \in {"idle", "done"}
  /\ remaining > 0
  /\ remaining' = remaining - 1
  /\ call' = [call EXCEPT ![c] = [name |-> toolName, arguments |-> arguments, via |-> "call_tool"]]
  /\ overlapped' = [overlapped EXCEPT ![c] = FALSE]
  /\ clientCalls' = [clientCalls EXCEPT ![c] = {}]
  /\ UNCHANGED <<server, upstream>>
  /\ LET args == ArgsOf(arguments)
         invalid == IF toolName = "update_workflow"
                    THEN ValidationError(args) ELSE MissingParam(toolName, args)
     IN  IF ~HandlerFound(toolHandlers, toolName)
         THEN /\ executed' = [executed EXCEPT ![c] = <<>>]
              /\ requests' = [requests EXCEPT ![c] = <<>>]
              /\ frames' = [frames EXCEPT ![c] = <<>>]
              /\ local' = [local EXCEPT ![c] = NoLocal]
              /\ settled' = [settled EXCEPT ![c] = NoReturn]
              /\ Return(c, toolName, Rejected(UnknownToolError(toolName)))
         ELSE /\ executed' = [executed EXCEPT ![c] =
                                <<[handler |-> toolHandlers[toolName], args |-> args]>>]
              /\ IF invalid # <<>>
                 THEN /\ requests' = [requests EXCEPT ![c] = <<>>]
                      /\ frames' = [frames EXCEPT ![c] = <<>>]
                      /\ local' = [local EXCEPT ![c] = NoLocal]
                      /\ settled' = [settled EXCEPT ![c] = Caught(N8nApiError(invalid))]
                      /\ Return(c, toolName, Caught(N8nApiError(invalid)))
                 ELSE IF toolName = "update_workflow"
                 THEN /\ requests' = [requests EXCEPT ![c] =
                                        <<Request("GET", <<"/workflows">>, Empty)>>]
                      /\ frames' = [frames EXCEPT ![c] = Sent(Enter(<<>>, "getWorkflows"))]
                      /\ local' = [local EXCEPT ![c] = NoLocal]
                      /\ returned' = [returned EXCEPT ![c] = NoReturn]
                      /\ settled' = [settled EXCEPT ![c] = NoReturn]
                      /\ pc' = [pc EXCEPT ![c] = "list"]
                      /\ UNCHANGED toolHandlers
                 ELSE LET method == ToolMethod(toolName)
                          id == TargetId(toolName, args)
                          body == IF method = "createWorkflow"
                                  THEN WorkflowToCreate(args) ELSE Empty
                          rq == ClientRequest(method, id)
                      IN  /\ requests' = [requests EXCEPT ![c] =
                                            <<Request(rq[1], rq[2], body)>>]
                          /\ frames' = [frames EXCEPT ![c] = Sent(Enter(<<>>, method))]
                          /\ local' = [local EXCEPT ![c] = [id |-> id, body |-> body]]
                          /\ returned' = [returned EXCEPT ![c] = NoReturn]
                          /\ settled' = [settled EXCEPT ![c] = NoReturn]
                          /\ pc' = [pc EXCEPT ![c] = "single"]
                          /\ UNCHANGED toolHandlers

\* the call ends with outcome: a tool call returns through the dispatcher, a
\* direct API client call returns or throws to its caller
Complete(c, outcome) ==
  /\ pc' = [pc EXCEPT ![c] = "done"]
  /\ IF call[c].via = "call_tool"
     THEN /\ settled' = [settled EXCEPT ![c] = outcome]
          /\ returned' = [returned EXCEPT ![c] = ToolCallResult(outcome)]
          /\ toolHandlers' = HandlersAfterCall(toolHandlers, call[c].name)
     ELSE /\ returned' = [returned EXCEPT ![c] = outcome]
          /\ UNCHANGED <<settled, toolHandlers>>

\* the response to the one request of a one-request API client method arrived
SingleResponse(c) ==
  /\ pc[c] = "single"
  /\ LET method == frames[c][1].method
         id == local[c].id
     IN  \E ok \in BOOLEAN, escape \in Escapes \cup {NoReturn} :
           /\ ok => CanServe(upstream, method, id)
           /\ escape # NoReturn => ~ok /\ call[c].via = "call_tool"
           /\ LET after == IF ok THEN UpstreamAfter(upstream, method, id, local[c].body)
                           ELSE upstream
                  data == ResponseData(upstream, after, method, id)
                  result == IF ok THEN Resolved(data)
                            ELSE Rejected(handleAxiosError(ClientFailure(method, id)))
              IN  /\ upstream' = after
                  /\ clientCalls' = [clientCalls EXCEPT ![c] =
                       @ \cup {Finished(frames[c], IF ok THEN "returned" ELSE "threw")}]
                  /\ frames' = [frames EXCEPT ![c] = Leave(@)]
                  /\ overlapped' = Overlap(c, ok /\ method \in Writes)
                  /\ Complete(c, IF call[c].via # "call_tool" THEN result
                                 ELSE IF escape # NoReturn THEN Rejected(escape)
                                 ELSE IF ok THEN Resolved(OtherSuccess(call[c].name, data))
                                 ELSE Caught(result.error))
  /\ UNCHANGED <<server, call, local, requests, executed, remaining>>

----------------------------------------------------------------------------
(* update_workflow after each response; updateWorkflow of the API client *)

\* the response to GET /workflows arrived: find the workflow, build workflowData
\* and enter updateWorkflow, whose getWorkflow sends GET /workflows/{id}
ListResponse(c) ==
  /\ pc[c] = "list"
  /\ LET args == ArgsOf(call[c].arguments)
     IN  \E ok \in BOOLEAN :
           LET workflows == UpstreamList(upstream)
               i == FindByName(workflows, args.name)
           IN  /\ clientCalls' = [clientCalls EXCEPT ![c] =
                    @ \cup {Finished(frames[c], IF ok THEN "returned" ELSE "threw")}]
               /\ IF ~ok
                  THEN /\ Complete(c, Caught(handleAxiosError(ClientFailure("getWorkflows", ""))))
                       /\ frames' = [frames EXCEPT ![c] = <<>>]
                       /\ UNCHANGED <<local, requests>>
                  ELSE IF i = 0
                  THEN /\ Complete(c, Caught(NotFoundError(args.name)))
                       /\ frames' = [frames EXCEPT ![c] = <<>>]
                       /\ UNCHANGED <<local, requests>>
                  ELSE /\ local' = [local EXCEPT ![c] =
                                      [workflow |-> workflows[i],
                                       id |-> workflows[i].id,
                                       data |-> WorkflowData(workflows[i], args)]]
                       /\ requests' = [requests EXCEPT ![c] =
                            Append(@, Request("GET", <<"/workflows/", workflows[i].id>>, Empty))]
                       /\ frames' = [frames EXCEPT ![c] =
                            Sent(Enter(Enter(<<>>, "updateWorkflow"), "getWorkflow"))]
                       /\ pc' = [pc EXCEPT ![c] = "get"]
                       /\ UNCHANGED <<returned, settled, toolHandlers>>
  /\ UNCHANGED <<server, upstream, call, executed, overlapped, remaining>>

\* the response to GET /workflows/{id} arrived inside updateWorkflow: merge and
\* send the PUT, or rethrow when the fetch failed
GetResponse(c) ==
  /\ pc[c] = "get"
  /\ LET id == local[c].id
     IN  \E ok \in BOOLEAN :
           /\ ok => CanServe(upstream, "getWorkflow", id)
           /\ IF ok
              THEN LET currentWorkflow == ResponseData(upstream, upstream, "getWorkflow", id)
                       body == UpdatedWorkflow(currentWorkflow, local[c].data)
                   IN  /\ clientCalls' = [clientCalls EXCEPT ![c] =
                            @ \cup {Finished(frames[c], "returned")}]
                       /\ requests' = [requests EXCEPT ![c] =
                            Append(@, Request("PUT", <<"/workflows/", id>>, body))]
                       /\ frames' = [frames EXCEPT ![c] = Sent(Leave(@))]
                       /\ pc' = [pc EXCEPT ![c] = "put"]
                       /\ UNCHANGED <<returned, settled, toolHandlers>>
              ELSE LET error == handleAxiosError(ClientFailure("updateWorkflow", id))
                   IN  /\ clientCalls' = [clientCalls EXCEPT ![c] =
                            @ \cup {Finished(frames[c], "threw"),
                                    Finished(Leave(frames[c]), "threw")}]
                       /\ frames' = [frames EXCEPT ![c] = <<>>]
                       /\ Complete(c, IF call[c].via = "call_tool"
                                      THEN Caught(error) ELSE Rejected(error))
                       /\ UNCHANGED requests
  /\ UNCHANGED <<server, upstream, call, local, executed, overlapped, remaining>>

\* the response to PUT /workflows/{id} arrived: updateWorkflow returns the
\* stored workflow and the handler builds its summary
PutResponse(c) ==
  /\ pc[c] = "put"
  /\ LET id == local[c].id
         body == requests[c][Len(requests[c])].body
     IN  \E ok \in BOOLEAN :
           /\ ok => CanServe(upstream, "updateWorkflow", id)
           /\ LET after == IF ok THEN UpstreamAfter(upstream, "updateWorkflow", id, body)
                           ELSE upstream
                  data == ResponseData(upstream, after, "updateWorkflow", id)
                  error == handleAxiosError(ClientFailure("updateWorkflow", id))
              IN  /\ upstream' = after
                  /\ clientCalls' = [clientCalls EXCEPT ![c] =
                       @ \cup {Finished(frames[c], IF ok THEN "returned" ELSE "threw")}]
                  /\ frames' = [frames EXCEPT ![c] = <<>>]
                  /\ overlapped' = Overlap(c, ok)
                  /\ Complete(c, IF call[c].via # "call_tool"
                                 THEN (IF ok THEN Resolved(data) ELSE Rejected(error))
                                 ELSE IF ok
                                 THEN Resolved(UpdateSuccess(ArgsOf(call[c].arguments),
                                                             local[c].workflow, data))
                                 ELSE Caught(error))
  /\ UNCHANGED <<server, call, local, requests, executed, remaining>>

----------------------------------------------------------------------------
(* The API client called directly *)

\* a user of the client calls one of its methods: up to the first response
DirectCall(c, method, id, w) ==
  /\ server = "up"
  /\ pc[c] \in {"idle", "done"}
  /\ remaining > 0
  /\ remaining' = remaining - 1
  /\ call' = [call EXCEPT ![c] = [name |-> method, arguments |-> w, via |-> "client"]]
  /\ overlapped' = [overlapped EXCEPT ![c] = FALSE]
  /\ clientCalls' = [clientCalls EXCEPT ![c] = {}]
  /\ executed' = [executed EXCEPT ![c] = <<>>]
  /\ returned' = [returned EXCEPT ![c] = NoReturn]
  /\ settled' = [settled EXCEPT ![c] = NoReturn]
  /\ IF method = "updateWorkflow"
     THEN /\ requests' = [requests EXCEPT ![c] =
                            <<Request("GET", <<"/workflows/", id>>, Empty)>>]
          /\ frames' = [frames EXCEPT ![c] =
                          Sent(Enter(Enter(<<>>, "updateWorkflow"), "getWorkflow"))]
          /\ local' = [local EXCEPT ![c] = [workflow |-> Empty, id |-> id, data |-> w]]
          /\ pc' = [pc EXCEPT ![c] = "get"]
     ELSE LET body == IF method = "createWorkflow" THEN WorkflowToCreate(w) ELSE Empty
              rq == ClientRequest(method, id)
          IN  /\ requests' = [requests EXCEPT ![c] = <<Request(rq[1], rq[2], body)>>]
              /\ frames' = [frames EXCEPT ![c] = Sent(Enter(<<>>, method))]
              /\ local' = [local EXCEPT ![c] = [id |-> id, body |-> body]]
              /\ pc' = [pc EXCEPT ![c] = "single"]
  /\ UNCHANGED <<server, toolHandlers, upstream>>

----------------------------------------------------------------------------
(* The server *)

Next ==
  \/ StartServer
  \/ ConnectivityResponse
  \/ \E c \in Callers :
       \/ \E toolName \in ToolNames : \E arguments \in Arguments(toolName) :
            CallTool(c, toolName, arguments)
       \/ SingleResponse(c)
       \/ ListResponse(c)
       \/ GetResponse(c)
       \/ PutResponse(c)

Spec == Init /\ [][Next]_vars

----------------------------------------------------------------------------
(* One call, by tool name or on the API client, from any stored state *)

Workflow2 ==
  [id |-> "2", name |-> "Test", nodes |-> "[]", connections |-> "{}",
   settings |-> Empty, active |-> TRUE, tags |-> "[]", createdAt |-> "t0"]

StoredWorkflows ==
  { [i \in Slots |-> IF i = 1 THEN first ELSE IF i = 2 THEN second ELSE Absent] :
      first \in {Absent, Workflow1,
                 [Workflow1 EXCEPT !.active = TRUE,
                                   !.settings = [timezone |-> "UTC", callerPolicy |-> "own"]]},
      second \in {Absent, Workflow2} }

InitCall ==
  /\ server = "init"
  /\ toolHandlers = Empty
  /\ upstream \in StoredWorkflows
  /\ pc = [c \in Callers |-> "idle"]
  /\ call = [c \in Callers |-> NoReturn]
  /\ local = [c \in Callers |-> NoLocal]
  /\ settled = [c \in Callers |-> NoReturn]
  /\ returned = [c \in Callers |-> NoReturn]
  /\ requests = [c \in Callers |-> <<>>]
  /\ executed = [c \in Callers |-> <<>>]
  /\ frames = [c \in Callers |-> <<>>]
  /\ clientCalls = [c \in Callers \cup {"server"} |-> {}]
  /\ overlapped = [c \in Callers |-> FALSE]
  /\ remaining = 1

NextCall ==
  \/ StartServer
  \/ ConnectivityResponse
  \/ \E toolName \in ToolNames : \E arguments \in AllArguments(toolName) :
       CallTool("a", toolName, arguments)
  \/ \E method \in ClientMethods \cup {"updateWorkflow"} :
       \E id \in ClientIds(method), w \in ClientObjects(method) :
         DirectCall("a", method, id, w)
  \/ SingleResponse("a")
  \/ ListResponse("a")
  \/ GetResponse("a")
  \/ PutResponse("a")

CallSpec == InitCall /\ [][NextCall]_vars

----------------------------------------------------------------------------
(* Properties *)

\* the text of the first content block of an envelope
TextOf(envelope) == envelope.content[1].text

IsEnvelope(value) == DOMAIN value = {"content", "isError"}

\* caller c has sent a call_tool request
Called(c) == pc[c] # "idle" /\ call[c].via = "call_tool"

ArgsSent(c) == ArgsOf(call[c].arguments)

\* C1: a call_tool request whose tool name is no key of the registry has
\* returned at once: no handler was executed, no HTTP request was sent, and the
\* value returned is an envelope with isError = true whose text contains the name.
C1_UnknownToolIsErrorEnvelope ==
  \A c \in Callers :
    (Called(c) /\ call[c].name \notin DOMAIN toolHandlers) =>
      /\ pc[c] = "done"
      /\ executed[c] = <<>>
      /\ requests[c] = <<>>
      /\ clientCalls[c] = {}
      /\ IsEnvelope(returned[c])
      /\ returned[c].isError = TRUE
      /\ Includes(TextOf(returned[c]), <<call[c].name>>)

C1_Witness ==
  \E c \in Callers :
    /\ Called(c) /\ pc[c] = "done"
    /\ call[c].name = "bogus_tool"
    /\ call[c].arguments = Omitted
    /\ TextOf(returned[c]) = <<"Error: ", "Unknown tool: ", "bogus_tool">>

\* C2 as stated: every finished call_tool request returned an envelope, and when
\* the handler's execute rejected, the envelope has isError = true and its text
\* carries the message of the rejected value.
C2_RejectionTextCarriesMessage ==
  \A c \in Callers :
    (Called(c) /\ pc[c] = "done") =>
      /\ IsEnvelope(returned[c])
      /\ (settled[c] # NoReturn /\ settled[c].threw) =>
           /\ returned[c].isError = TRUE
           /\ Includes(TextOf(returned[c]), settled[c].error.message)

\* C2 amended: every finished call_tool request returned an envelope, a handler
\* invoked with omitted arguments received the empty mapping, and when execute
\* rejected the envelope has isError = true and its text carries the message of
\* the rejected value if that value is an Error instance and is the fixed text
\* "Unknown error" otherwise.
C2_EveryCallReturnsEnvelope ==
  \A c \in Callers :
    (Called(c) /\ pc[c] = "done") =>
      /\ IsEnvelope(returned[c])
      /\ returned[c].isError \in BOOLEAN
      /\ (call[c].arguments = Omitted /\ executed[c] # <<>>) => executed[c][1].args = Empty
      /\ (settled[c] # NoReturn /\ settled[c].threw) =>
           /\ returned[c].isError = TRUE
           /\ IF settled[c].error.instanceofError
              THEN TextOf(returned[c]) = <<"Error: ">> \o settled[c].error.message
              ELSE TextOf(returned[c]) = <<"Error: ", "Unknown error">>

C2_Witness ==
  \E c \in Callers :
    /\ Called(c) /\ pc[c] = "done"
    /\ settled[c] # NoReturn /\ settled[c].threw
    /\ settled[c].error.instanceofError
    /\ TextOf(returned[c]) = <<"Error: ", "boom">>

\* C3: a call_tool request to a registered tool whose arguments lack the
\* handler's required argument has returned an error envelope whose text names
\* that argument, and the call sent no HTTP request: for update_workflow without
\* name, neither the list GET, nor the GET by id, nor the PUT.
C3_MissingRequiredArgument ==
  \A c \in Callers :
    (/\ Called(c)
     /\ call[c].name \in DOMAIN toolHandlers
     /\ RequiredParam(call[c].name) # ""
     /\ ~Has(ArgsSent(c), RequiredParam(call[c].name))) =>
      /\ pc[c] = "done"
      /\ returned[c].isError = TRUE
      /\ Includes(TextOf(returned[c]), <<RequiredParam(call[c].name)>>)
      /\ requests[c] = <<>>
      /\ clientCalls[c] = {}

C3_Witness ==
  \E c \in Callers :
    /\ Called(c) /\ pc[c] = "done"
    /\ call[c].name = "update_workflow"
    /\ call[c].arguments = [active |-> TRUE, tags |-> "[t2]"]
    /\ TextOf(returned[c]) = <<"Missing required parameter: ", "name">>
    /\ requests[c] = <<>>

\* C11 as stated: an update_workflow request that names its workflow and whose
\* nodes is present and not an array, or whose connections is present and not a
\* mapping (an array, a string, 0 or the empty string), has returned an error
\* envelope naming the offending parameter, and the call sent no HTTP request.
C11_StructuralArgumentsChecked ==
  \A c \in Callers :
    (/\ Called(c)
     /\ call[c].name = "update_workflow"
     /\ call[c].name \in DOMAIN toolHandlers
     /\ Has(ArgsSent(c), "name") /\ Truthy(ArgsSent(c).name)) =>
      LET badNodes == Has(ArgsSent(c), "nodes") /\ ArgsSent(c).nodes \notin ArrayValues
          badConnections ==
            Has(ArgsSent(c), "connections") /\ ArgsSent(c).connections \notin ObjectValues
      IN  (badNodes \/ badConnections) =>
            /\ pc[c] = "done"
            /\ returned[c].isError = TRUE
            /\ \/ badNodes /\ Includes(TextOf(returned[c]), <<"nodes">>)
               \/ badConnections /\ Includes(TextOf(returned[c]), <<"connections">>)
            /\ requests[c] = <<>>
            /\ clientCalls[c] = {}

\* caller c's update_workflow request has returned a success envelope
UpdateSucceeded(c) ==
  /\ Called(c) /\ pc[c] = "done"
  /\ call[c].name = "update_workflow"
  /\ returned[c].isError = FALSE

\* the workflow field an update_workflow argument writes
FieldOf(arg) == IF arg = "newName" THEN "name" ELSE arg

\* the workflow fields the arguments of an update_workflow request supply
Supplied(args) == {FieldOf(arg) : arg \in DOMAIN args \ {"name"}}

\* caller c's PUT is being answered with a 2xx in this step
PutServed(c) ==
  /\ Called(c) /\ call[c].name = "update_workflow"
  /\ pc[c] = "put" /\ pc'[c] = "done"
  /\ returned'[c].isError = FALSE

\* C4: the write of an update_workflow call changes a merged field its caller
\* did not supply only when another writer wrote upstream during the call: the
\* read-modify-write is exact in isolation, and only an interleaving loses a
\* change.  The witness is the lost update itself: two update_workflow calls on
\* one workflow with disjoint fields, both returned success, and the upstream
\* workflow lacks one caller's change.
C4_OnlyOverlapOverwrites ==
  [][\A c \in Callers :
       (PutServed(c) /\ ~overlapped[c]) =>
         \A k \in MergedFields \ Supplied(ArgsSent(c)) :
           upstream'[SlotOf(local[c].id)][k] = upstream[SlotOf(local[c].id)][k]]_vars

C4_Witness ==
  \E c, d \in Callers :
    /\ c # d
    /\ UpdateSucceeded(c) /\ UpdateSucceeded(d)
    /\ local[c].id = local[d].id
    /\ Supplied(ArgsSent(c)) \cap Supplied(ArgsSent(d)) = {}
    /\ Supplied(ArgsSent(c)) # {} /\ Supplied(ArgsSent(d)) # {}
    /\ upstream[SlotOf(local[c].id)] # Absent
    /\ Has(ArgsSent(c), "tags")
    /\ ArgsSent(c).tags # local[c].workflow.tags
    /\ upstream[SlotOf(local[c].id)].tags = local[c].workflow.tags
    /\ remaining = MaxCalls - 2

\* C5: when the PUT of an update_workflow call that no other writer overlapped
\* succeeds and the supplied active differs from the stored one, the summary
\* includes `active: <old> -> <new>`, the payload's active is the new value and
\* so is the stored one.
C5_ActiveChangeReported ==
  [][\A c \in Callers :
       (/\ PutServed(c) /\ ~overlapped[c]
        /\ Has(ArgsSent(c), "active")
        /\ ArgsSent(c).active # upstream[SlotOf(local[c].id)].active) =>
         /\ Includes(TextOf(returned'[c]),
                     <<"active: ", BoolText(upstream[SlotOf(local[c].id)].active), Arrow,
                       BoolText(ArgsSent(c).active)>>)
         /\ returned'[c].content[1].data.active = ArgsSent(c).active
         /\ upstream'[SlotOf(local[c].id)].active = ArgsSent(c).active]_vars

C5_Witness ==
  \E c \in Callers :
    /\ UpdateSucceeded(c) /\ ~overlapped[c]
    /\ call[c].arguments = [name |-> "Test", active |-> TRUE]
    /\ local[c].workflow.active = FALSE
    /\ Includes(TextOf(returned[c]), <<"active: ", "false", Arrow, "true">>)
    /\ returned[c].content[1].data.active = TRUE

\* C6 as stated: an update_workflow request with only `name` that succeeded has
\* a summary text that is exactly "No changes were made".
C6_SummaryIsExactlyNoChanges ==
  \A c \in Callers :
    (UpdateSucceeded(c) /\ DOMAIN ArgsSent(c) = {"name"}) =>
      TextOf(returned[c]) = <<"No changes were made">>

\* C6 amended: an update_workflow request with only `name` that succeeded has
\* the summary text "Workflow updated successfully. No changes were made": the
\* part after the fixed opening sentence is exactly "No changes were made".
C6_SummaryEndsWithNoChanges ==
  \A c \in Callers :
    (UpdateSucceeded(c) /\ DOMAIN ArgsSent(c) = {"name"}) =>
      TextOf(returned[c]) = <<"Workflow updated successfully. ", "No changes were made">>

C6_Witness ==
  \E c \in Callers :
    /\ UpdateSucceeded(c)
    /\ call[c].arguments = [name |-> "Test"]
    /\ local[c].workflow.name = "Test"
    /\ Len(requests[c]) = 3

\* the piece of an update summary that opens the entry of a workflow field
EntryOf(field) ==
  CASE field = "name" -> <<"name: \"">>
    [] field = "active" -> <<"active: ">>
    [] OTHER -> <<field \o " updated">>

\* C12 as stated: the summary of a successful update_workflow request names a
\* field among name, nodes, connections, active, tags exactly when the value the
\* request writes differs from the found workflow's value, and reads "No changes
\* were made" when no field differs, also when nodes, connections or tags are
\* supplied equal to the stored ones.
C12_SummaryNamesExactlyChanges ==
  \A c \in Callers :
    UpdateSucceeded(c) =>
      LET workflow == local[c].workflow
          new == WorkflowData(workflow, ArgsSent(c))
          changed == {f \in MergedFields : new[f] # workflow[f]}
      IN  /\ \A f \in MergedFields :
               Includes(TextOf(returned[c]), EntryOf(f)) <=> f \in changed
          /\ changed = {} => Includes(TextOf(returned[c]), <<"No changes were made">>)

\* caller c's call has sent POST /workflows as its first request
CreateSent(c) ==
  /\ pc[c] # "idle"
  /\ Len(requests[c]) >= 1
  /\ requests[c][1].verb = "POST"
  /\ requests[c][1].path = <<"/workflows">>

\* the settings baseline as the claim states it
C7_Baseline ==
  [saveExecutionProgress |-> TRUE, saveManualExecutions |-> TRUE,
   saveDataErrorExecution |-> "all", saveDataSuccessExecution |-> "all",
   executionTimeout |-> 3600, timezone |-> "UTC"]

\* C7: the body createWorkflow sends has as settings the baseline with the
\* caller's settings keys written over it (the whole baseline, so
\* saveExecutionProgress = true and timezone = "UTC", when settings is omitted),
\* and nodes, connections and tags are empty when the caller left them out.
C7_CreateFillsDefaults ==
  \A c \in Callers :
    CreateSent(c) =>
      LET w == ArgsSent(c)
          body == requests[c][1].body
          given == IF Has(w, "settings") THEN w.settings ELSE Empty
      IN  /\ DOMAIN body.settings = DOMAIN C7_Baseline \cup DOMAIN given
          /\ \A k \in DOMAIN given : body.settings[k] = given[k]
          /\ \A k \in DOMAIN C7_Baseline \ DOMAIN given : body.settings[k] = C7_Baseline[k]
          /\ ~Has(w, "settings") =>
               /\ body.settings.saveExecutionProgress = TRUE
               /\ body.settings.timezone = "UTC"
               /\ body.settings = C7_Baseline
          /\ ~Has(w, "nodes") => body.nodes = "[]"
          /\ ~Has(w, "connections") => body.connections = "{}"
          /\ ~Has(w, "tags") => body.tags = "[]"
          /\ (Has(w, "nodes") /\ Truthy(w.nodes)) => body.nodes = w.nodes
          /\ Has(w, "name") => body.name = w.name

C7_Witness ==
  \E c \in Callers :
    /\ CreateSent(c)
    /\ call[c].via = "client"
    /\ call[c].arguments = [name |-> "Made", settings |-> [timezone |-> "CET"]]
    /\ requests[c][1].body.settings.timezone = "CET"
    /\ requests[c][1].body.settings.saveExecutionProgress = TRUE
    /\ requests[c][1].body.nodes = "[]"

AllClientCalls == UNION {clientCalls[who] : who \in DOMAIN clientCalls}

\* C8 as stated: every finished invocation of an API client method sent exactly
\* one HTTP request.
C8_ExactlyOneRequest == \A t \in AllClientCalls : t[2] = 1

\* C8 amended: every finished invocation of an API client method other than
\* updateWorkflow sent exactly one HTTP request; updateWorkflow sent two when it
\* returned, the GET of getWorkflow and then the PUT, and one or two when it threw.
C8_OneRequestExceptUpdate ==
  \A t \in AllClientCalls :
    IF t[1] = "updateWorkflow"
    THEN (t[3] = "returned" => t[2] = 2) /\ t[2] \in {1, 2}
    ELSE t[2] = 1

C8_Witness ==
  /\ <<"checkConnectivity", 1, "returned">> \in clientCalls["server"]
  /\ <<"getWorkflow", 1, "returned">> \in clientCalls["a"]
  /\ <<"updateWorkflow", 2, "returned">> \in clientCalls["a"]

\* C9: once the server is up the registry is the one built at startup, one
\* handler per name, and no call changes it; a call_tool request has executed
\* exactly one handler, the one registered under its name, when the name is
\* registered and none otherwise.
C9_OneHandlerPerCall ==
  /\ server \in {"init", "probing", "failed"} => toolHandlers = Empty
  /\ server = "up" =>
       /\ toolHandlers = RegisteredHandlers
       /\ Cardinality(DOMAIN toolHandlers) = 11
  /\ \A c \in Callers :
       Called(c) =>
         IF call[c].name \in DOMAIN RegisteredHandlers
         THEN /\ Len(executed[c]) = 1
              /\ executed[c][1].handler = RegisteredHandlers[call[c].name]
         ELSE executed[c] = <<>>

C9_Witness ==
  \E c, d \in Callers :
    /\ Called(c) /\ pc[c] = "done" /\ call[c].name = "bogus_tool"
    /\ Called(d) /\ pc[d] = "done" /\ call[d].name = "update_workflow"
    /\ executed[d][1].handler = "UpdateWorkflowHandler"
    /\ toolHandlers = RegisteredHandlers

\* C10: the body updateWorkflow puts carries, for each of name, nodes,
\* connections, active and tags, the caller's value when the caller's object has
\* the field and the fetched copy's value otherwise; its settings are the fetched
\* settings with the caller's settings keys written over them; every other field
\* is the fetched copy's.
C10_PutBodyIsMerge ==
  \A c \in Callers :
    pc[c] = "put" =>
      LET w == local[c].data
          current == upstream[SlotOf(local[c].id)]
          body == requests[c][Len(requests[c])].body
          given == IF Has(w, "settings") THEN w.settings ELSE Empty
      IN  /\ requests[c][Len(requests[c])].verb = "PUT"
          /\ requests[c][Len(requests[c])].path = <<"/workflows/", local[c].id>>
          /\ DOMAIN body = DOMAIN current
          /\ \A k \in MergedFields : body[k] = IF Has(w, k) THEN w[k] ELSE current[k]
          /\ DOMAIN body.settings = DOMAIN current.settings \cup DOMAIN given
          /\ \A k \in DOMAIN body.settings :
               body.settings[k] = IF k \in DOMAIN given THEN given[k] ELSE current.settings[k]
          /\ \A k \in DOMAIN current \ (MergedFields \cup {"settings"}) : body[k] = current[k]

C10_Witness ==
  \E c \in Callers :
    /\ pc[c] = "put"
    /\ call[c].via = "client"
    /\ local[c].data = [active |-> FALSE, settings |-> [timezone |-> "CET"], createdAt |-> "t9"]
    /\ upstream[SlotOf(local[c].id)].active = TRUE
    /\ requests[c][2].body.active = FALSE
    /\ requests[c][2].body.name = "Test"
    /\ requests[c][2].body.settings = [timezone |-> "CET", callerPolicy |-> "own"]
    /\ requests[c][2].body.createdAt = "t0"

\* the positions in a workflow list whose workflow has that name
Matches(workflows, name) == {i \in 1..Len(workflows) : workflows[i].name = name}

\* an API client method of caller c's call has returned after one request
Answered(calls, method) == <<method, 1, "returned">> \in calls

\* C13: within one update_workflow call the requests are GET /workflows, then
\* GET /workflows/{id}, then PUT /workflows/{id}, one in flight at a time and
\* each sent in the step that receives the previous response: the GET by id
\* only when the list GET succeeded and a workflow of the supplied name exists,
\* with the id of the first such workflow in list order, the PUT only when the
\* GET by id succeeded.  When the list has no workflow of that name the call
\* returns a "not found" error envelope and sends nothing more.
C13_RequestsInOrder ==
  [][\A c \in Callers :
       (pc'[c] # "idle" /\ call'[c].via = "call_tool" /\ call'[c].name = "update_workflow") =>
         LET name == ArgsOf(call'[c].arguments).name
             workflows == UpstreamList(upstream)
             hits == Matches(workflows, name)
             listGet == Request("GET", <<"/workflows">>, Empty)
         IN  /\ pc'[c] = "list" => requests'[c] = <<listGet>>
             /\ pc'[c] = "get" => Len(requests'[c]) = 2
             /\ pc'[c] = "put" => Len(requests'[c]) = 3
             /\ pc'[c] = "done" => Len(requests'[c]) <= 3
             /\ requests'[c] # requests[c] =>
                  \/ pc[c] \in {"idle", "done"} /\ requests'[c] \in {<<>>, <<listGet>>}
                  \/ /\ pc[c] = "list" /\ pc'[c] = "get"
                     /\ Answered(clientCalls'[c], "getWorkflows")
                     /\ \E i \in hits :
                          /\ \A j \in hits : i <= j
                          /\ requests'[c] =
                               <<listGet, Request("GET", <<"/workflows/", workflows[i].id>>, Empty)>>
                  \/ /\ pc[c] = "get" /\ pc'[c] = "put"
                     /\ Answered(clientCalls'[c], "getWorkflow")
                     /\ SubSeq(requests'[c], 1, 2) = requests[c]
                     /\ requests'[c][3].verb = "PUT"
                     /\ requests'[c][3].path = requests[c][2].path
             /\ (/\ pc[c] = "list" /\ pc'[c] # "list"
                 /\ Answered(clientCalls'[c], "getWorkflows")
                 /\ hits = {}) =>
                  /\ pc'[c] = "done"
                  /\ requests'[c] = <<listGet>>
                  /\ returned'[c].isError = TRUE
                  /\ Includes(TextOf(returned'[c]), <<"Workflow with name \"", name, "\" not found">>)
    ]_vars

C13_Witness ==
  \E c \in Callers :
    /\ UpdateSucceeded(c)
    /\ Len(requests[c]) = 3
    /\ requests[c][1] = Request("GET", <<"/workflows">>, Empty)
    /\ requests[c][2] = Request("GET", <<"/workflows/", "1">>, Empty)
    /\ requests[c][3].verb = "PUT" /\ requests[c][3].path = <<"/workflows/", "1">>
    /\ upstream[2] # Absent /\ upstream[2].name = call[c].arguments.name
    /\ Answered(clientCalls[c], "getWorkflows")
    /\ Answered(clientCalls[c], "getWorkflow")
====
